---- MODULE Spec2Model ----
(***************************************************************************)
(* A model of the JavaYoshi release strategy                               *)
(* (src/src/strategies/java-yoshi.ts): commit post-processing, the         *)
(* promotion protocol of updateVersionsMap, the stability classification   *)
(* of artifact keys, the memoized access to versions.txt and the assembly  *)
(* of the update plan.                                                     *)
(*                                                                         *)
(* Strings that the code inspects character by character (artifact keys)   *)
(* are sequences of one-character strings; a character outside ASCII is    *)
(* written as its code point.  JavaScript's undefined is                   *)
(* the empty tuple where the defined values are tuples (versions), and a   *)
(* record with a "defined" flag elsewhere.                                 *)
(***************************************************************************)
EXTENDS Integers, Sequences, FiniteSets, TLC

VARIABLES
  artifact,             \* SpecStable: the key handed to isStableArtifact
  stableResult,         \* SpecStable: what isStableArtifact returned
  versionsMap,          \* SpecBump: the VersionsMap object (mutated in place)
  conventionalCommits,  \* SpecBump: the commit array (mutated in place by push)
  inputMap,             \* history: versionsMap as it was before any call
  inputCommits,         \* history: conventionalCommits as it was before any call
  postResult,           \* what postProcessCommits returned
  updateResult,         \* what updateVersionsMap returned
  bumpLog,              \* history: the arguments of each versioningStrategy.bump call
  updateCall,           \* updateVersionsMap: the locals of the call and where it is
  cfg,                  \* the strategy's configuration (path, flags, extraFiles)
  repoFiles,            \* backend: per file kind, what the search will answer
  versionsContent,      \* the private field versionsContent
  calls,                \* per invocation slot: the method running and where it is
  searches,             \* buildUpdates: the state of the three search promises
  arrival,              \* history: the kinds in the order their searches completed
  updates,              \* buildUpdates: the local array updates
  options,              \* buildUpdates: the options of the running call
  ret,                  \* what the last completed call returned or threw
  lastFetch,            \* history: what the backend answered to the last fetch
  fetched,              \* history: number of fetches that delivered content
  written,              \* history: the contents line 71 assigned to the field
  firstBuild,           \* history: the first plan buildUpdates returned
  orphans,              \* per kind, the searches of ended calls still in flight
  rejections,           \* the rejected promises without handler, not yet reported
  process               \* the node process: running, or ended by an uncaught error

bumpVars == <<versionsMap, conventionalCommits, inputMap, inputCommits,
              postResult, updateResult, bumpLog, updateCall>>
stableVars == <<artifact, stableResult>>
instVars == <<cfg, repoFiles, versionsContent, calls, searches, arrival,
              updates, options, ret, lastFetch, fetched, written,
              firstBuild, orphans, rejections, process>>
vars == <<artifact, stableResult, versionsMap, conventionalCommits, inputMap,
          inputCommits, postResult, updateResult, bumpLog, updateCall, cfg,
          repoFiles, versionsContent, calls, searches, arrival, updates,
          options, ret, lastFetch, fetched, written, firstBuild, orphans,
          rejections, process>>

(***************************************************************************)
(* Bounds of the model.                                                    *)
(***************************************************************************)
MaxKeyLen == 5
MaxCommits == 2
MaxKeys == 2
MaxFiles == 2
\* The searches one process leaves without a handler at its await: in flight
\* after their call ended, rejected and not yet reported, or reported.
MaxUnawaited == 4

\* All sequences over S of length at most n.
SeqsUpTo(S, n) == UNION {[1..k -> S] : k \in 0..n}

(***************************************************************************)
(* isStableArtifact and its two regular expressions.                       *)
(***************************************************************************)
Digits == {"0", "1", "2", "3", "4", "5", "6", "7", "8", "9"}
\* LF, CR, LINE SEPARATOR and PARAGRAPH SEPARATOR
LineTerminators == {"\n", "\r", "U+2028", "U+2029"}

\* \d
IsDigit(ch) == ch \in Digits
\* . (without the s flag): any character but a line terminator
IsDot(ch) == ch \notin LineTerminators
\* [^-]
IsNotHyphen(ch) == ch # "-"

NoMatch == [matched |-> FALSE, group1 |-> <<>>]

\* Positions i of the hyphen at which /^.*-(v\d+[^-]*)$/ can match s: s[1..i-1]
\* is matched by .*, s[i] is the hyphen, then v, at least one digit, and a
\* hyphen-free rest up to the end of the string.
VersionedArtifactHyphens(s) ==
  {i \in 1..Len(s) :
     /\ \A j \in 1..(i - 1) : IsDot(s[j])
     /\ s[i] = "-"
     /\ i + 1 <= Len(s)
     /\ s[i + 1] = "v"
     /\ \E d \in (i + 2)..Len(s) :
          /\ \A j \in (i + 2)..d : IsDigit(s[j])
          /\ \A j \in (d + 1)..Len(s) : IsNotHyphen(s[j])}

\* artifact.match(VERSIONED_ARTIFACT_REGEX): .* is greedy, so the match found
\* first is the one with the rightmost hyphen; group 1 is what follows it.
VERSIONED_ARTIFACT_REGEX(s) ==
  LET hs == VersionedArtifactHyphens(s) IN
  IF hs = {} THEN NoMatch
  ELSE LET i == CHOOSE h \in hs : \A g \in hs : g <= h IN
       [matched |-> TRUE, group1 |-> SubSeq(s, i + 1, Len(s))]

\* Positions d of the last digit taken by \d+ at which /^v\d+(.*)$/ can match t.
VersionDigitEnds(t) ==
  {d \in 2..Len(t) :
     /\ t[1] = "v"
     /\ \A j \in 2..d : IsDigit(t[j])
     /\ \A j \in (d + 1)..Len(t) : IsDot(t[j])}

\* match[1].match(VERSION_REGEX): \d+ is greedy, group 1 is the rest.
VERSION_REGEX(t) ==
  LET ds == VersionDigitEnds(t) IN
  IF ds = {} THEN NoMatch
  ELSE LET d == CHOOSE e \in ds : \A g \in ds : g <= e IN
       [matched |-> TRUE, group1 |-> SubSeq(t, d + 1, Len(t))]

\* Mutant: any version suffix makes the artifact pre-stable (the test of the
\* qualifier, versionMatch[1], is dropped).
isStableArtifactNoQualifierTest(key) ==
  ~VERSIONED_ARTIFACT_REGEX(key).matched

isStableArtifact(key) ==
  LET match == VERSIONED_ARTIFACT_REGEX(key) IN
  IF ~match.matched THEN TRUE
  ELSE LET versionMatch == VERSION_REGEX(match.group1) IN
       IF versionMatch.matched /\ versionMatch.group1 # <<>> THEN FALSE
       ELSE TRUE

(***************************************************************************)
(* Commits, notes and the promotion protocol.                              *)
(***************************************************************************)
Null == "null"

PromotionNote == [title |-> "RELEASE AS", text |-> "1.0.0"]
ReleaseAsOther == [title |-> "RELEASE AS", text |-> "2.0.0"]
BreakingNote == [title |-> "BREAKING CHANGE", text |-> "1.0.0"]

\* The note lists of the commits the model draws.
NoteLists ==
  {<<>>, <<PromotionNote>>, <<ReleaseAsOther>>, <<BreakingNote>>,
   <<BreakingNote, PromotionNote>>, <<PromotionNote, ReleaseAsOther>>}

Commit(type, breaking, notes) ==
  [type |-> type, bareMessage |-> "msg", message |-> "msg",
   breaking |-> breaking, scope |-> Null, notes |-> notes, files |-> <<>>,
   references |-> <<>>, sha |-> "abc"]

\* The commits the model draws: a fix with each of the note lists, and a
\* breaking feature without notes or with a breaking and a promotion note.
Commits ==
  {Commit("fix", FALSE, n) : n \in NoteLists}
  \cup {Commit("feat", TRUE, n) :
          n \in {<<>>, <<BreakingNote, PromotionNote>>}}

isPromotionNote(note) ==
  note.title = "RELEASE AS" /\ note.text = "1.0.0"

isPromotionCommit(commit) ==
  \E i \in 1..Len(commit.notes) : isPromotionNote(commit.notes[i])

\* The commit pushed by postProcessCommits.
FakeCommit ==
  [type |-> "fake", bareMessage |-> "fake commit", message |-> "fake commit",
   breaking |-> FALSE, scope |-> Null, notes |-> <<>>, files |-> <<>>,
   references |-> <<>>, sha |-> "fake"]

\* Mutant: the empty list is returned as it is.
postProcessCommitsNoPush(commits) == commits

\* postProcessCommits: the array after the call, which is also what is returned.
postProcessCommits(commits) ==
  IF Len(commits) = 0 THEN Append(commits, FakeCommit) ELSE commits

(***************************************************************************)
(* Versions and the VersionsMap (a JavaScript Map: entries in insertion    *)
(* order, unique keys).                                                    *)
(***************************************************************************)
NoVersion == <<>>
Version(major, minor, patch) == <<major, minor, patch>>
\* Version.parse('1.0.0')
PromotedVersion == Version(1, 0, 0)

MapKeys(map) == [i \in 1..Len(map) |-> map[i].key]
MapHas(map, key) == \E i \in 1..Len(map) : map[i].key = key
\* Mutant: the value read is that of the first entry.
MapGetFirst(map, key) == map[1].value

MapGet(map, key) ==
  IF MapHas(map, key)
    THEN map[CHOOSE i \in 1..Len(map) : map[i].key = key].value
    ELSE NoVersion
MapSet(map, key, value) ==
  IF MapHas(map, key)
    THEN [i \in 1..Len(map) |->
            IF map[i].key = key THEN [key |-> key, value |-> value] ELSE map[i]]
    ELSE Append(map, [key |-> key, value |-> value])
MapDelete(map, key) ==
  LET Other(e) == e.key # key IN SelectSeq(map, Other)

\* versioningStrategy.bump: breaking -> major, feature -> minor, anything else
\* -> patch, no commit -> unchanged.
bump(version, commits) ==
  IF \E i \in 1..Len(commits) : commits[i].breaking
    THEN Version(version[1] + 1, 0, 0)
  ELSE IF \E i \in 1..Len(commits) : commits[i].type = "feat"
    THEN Version(version[1], version[2] + 1, 0)
  ELSE IF commits # <<>>
    THEN Version(version[1], version[2], version[3] + 1)
  ELSE version

\* Mutant: every "RELEASE AS" note is stripped, whatever its text.
ModifiedCommitByTitle(commit) ==
  IF isPromotionCommit(commit)
    THEN LET NotReleaseAs(note) == note.title # "RELEASE AS" IN
         [commit EXCEPT !.notes = SelectSeq(commit.notes, NotReleaseAs)]
    ELSE commit

\* Lines 196-206: the commit handed to the strategy in place of commit.
ModifiedCommit(commit) ==
  IF isPromotionCommit(commit)
    THEN LET NotPromotion(note) == ~isPromotionNote(note) IN
         [commit EXCEPT !.notes = SelectSeq(commit.notes, NotPromotion)]
    ELSE commit

modifiedCommitsOf(commits) ==
  [i \in 1..Len(commits) |-> ModifiedCommit(commits[i])]

\* Mutant: the flag follows the last commit only (it is reset by a commit
\* without a promotion note).
isPromotionOfLastCommit(commits) ==
  commits # <<>> /\ isPromotionCommit(commits[Len(commits)])

isPromotionOf(commits) ==
  \E i \in 1..Len(commits) : isPromotionCommit(commits[i])

\* Mutant: the promotion notes are stripped from the input commits themselves.
CommitsAfterUpdateStripped(commits) == modifiedCommitsOf(commits)

\* Lines 195-206: the conventionalCommits array after the call; the loop
\* pushes to modifiedCommits and spreads a commit into a new object before
\* replacing its notes.
CommitsAfterUpdate(commits) == commits

\* Mutant: a key without a version is removed from the map.
SkipKeyDeletes(map, key) == MapDelete(map, key)

\* Mutant: a key without a version is given the promoted version.
SkipKeyPromotes(map, key) == MapSet(map, key, PromotedVersion)

\* Lines 209-212: the key without a version is skipped with a warning.
SkipKey(map, key) == map

\* Lines 207-215: the iterations of the loop over versionsMap.keys() that run
\* without suspension, from the i-th key of the (live) iterator on: a key
\* without a version is skipped, a stable key under promotion is set to
\* 1.0.0.  The result is the map and the position of the key for which
\* versioningStrategy.bump is called next, or the position past the last key.
RECURSIVE UpdateLoop(_, _, _)
UpdateLoop(map, i, isPromotion) ==
  IF i > Len(map) THEN [map |-> map, i |-> i]
  ELSE
    LET versionKey == MapKeys(map)[i]
        version == MapGet(map, versionKey)
    IN
    IF version = NoVersion
      THEN UpdateLoop(SkipKey(map, versionKey), i + 1, isPromotion)
    ELSE IF isPromotion /\ isStableArtifact(versionKey)
      THEN UpdateLoop(MapSet(map, versionKey, PromotedVersion), i + 1,
                      isPromotion)
    ELSE [map |-> map, i |-> i]

\* The locals of updateVersionsMap before it is called; input is the commit
\* array as it was when the call was made (history).
IdleUpdate ==
  [pc |-> "idle", i |-> 0, isPromotion |-> FALSE, modifiedCommits |-> <<>>,
   newVersion |-> NoVersion, input |-> <<>>]

(***************************************************************************)
(* The instance: configuration, the backend, the memoized registry         *)
(* content and the update plan.                                            *)
(***************************************************************************)
\* File paths are sequences of segments.
RootProjectPath == "."
VersionsTxt == <<"versions.txt">>
ChangelogPath == <<"CHANGELOG.md">>
StrategyName == "JavaYoshi"
Repository == [owner |-> "googleapis", repo |-> "java-core"]
RepositoryId == <<Repository.owner, "/", Repository.repo>>

\* this.addPath(file): the file under the strategy's path.
addPath(file) ==
  IF cfg.path = RootProjectPath THEN file ELSE <<cfg.path>> \o file

\* this.canSkipSnapshot()
canSkipSnapshot == cfg.skipSnapshot

\* The field versionsContent before anything was assigned to it.
Undefined == [defined |-> FALSE, id |-> "", snapshot |-> FALSE]
\* The contents the backend may deliver for versions.txt; snapshot is what
\* VersionsManifest.needsSnapshot answers on the parsed content.
Contents ==
  {[defined |-> TRUE, id |-> "r1", snapshot |-> TRUE],
   [defined |-> TRUE, id |-> "r2", snapshot |-> FALSE]}

NoError == [type |-> "none"]
FileNotFoundError(path) == [type |-> "FileNotFoundError", path |-> path]
OtherFetchError == [type |-> "GitHubAPIError", status |-> "500"]
SearchError(kind) == [type |-> "SearchError", kind |-> kind]
MissingRequiredFileError(file, component, repository) ==
  [type |-> "MissingRequiredFileError", file |-> file,
   component |-> component, repository |-> repository]

\* What github.getFileContentsOnBranch may answer.
FetchOutcomes ==
  {[ok |-> TRUE, content |-> c, error |-> NoError] : c \in Contents}
  \cup {[ok |-> FALSE, content |-> Undefined, error |-> e] :
          e \in {FileNotFoundError(addPath(VersionsTxt)), OtherFetchError}}
NoFetch == [ok |-> FALSE, content |-> Undefined, error |-> NoError]

Slots == {1, 2}
Kinds == {1, 2, 3}
KindFilename == <<"pom.xml", "build.gradle", "dependencies.properties">>
DirNames == <<"d1", "d2", "d3", "d4">>

\* What github.findFilesByFilenameAndRef answers for a kind: the paths found,
\* in discovery order, or a failure.
SearchAnswers ==
  {[ok |-> TRUE, n |-> n] : n \in 0..MaxFiles} \cup {[ok |-> FALSE, n |-> 0]}
FoundFiles(kind) ==
  [i \in 1..repoFiles[kind].n |-> <<DirNames[i], KindFilename[kind]>>]

PlainFile(name) == [isObject |-> FALSE, path |-> <<name>>]
ObjectFile(name) == [isObject |-> TRUE, path |-> <<name>>]
ExtraFileLists ==
  {<<>>, <<PlainFile("x.txt")>>, <<ObjectFile("o.json"), PlainFile("x.txt")>>,
   <<PlainFile("y.txt"), ObjectFile("o.json"), PlainFile("x.txt")>>}

IdleCall ==
  [op |-> "idle", pc |-> "idle", fetches |-> 0, got |-> Undefined,
   error |-> NoError]

\* The process as long as no error went uncaught; unhandled counts the
\* rejections node has reported as unhandled.
Running == [alive |-> TRUE, uncaught |-> NoError, unhandled |-> 0]
NoOptions ==
  [newVersion |-> "", versionsMap |-> "", isSnapshot |-> FALSE,
   changelogEntry |-> ""]
Options(isSnapshot) ==
  [newVersion |-> "1.3.0", versionsMap |-> "versionsMap",
   isSnapshot |-> isSnapshot, changelogEntry |-> "entry"]
NoReturn ==
  [op |-> "none", status |-> "none", content |-> Undefined, bool |-> FALSE,
   plan |-> <<>>, arrival |-> <<>>, options |-> NoOptions, error |-> NoError,
   fetches |-> 0]
NoBuild ==
  [set |-> FALSE, plan |-> <<>>, arrival |-> <<>>, isSnapshot |-> FALSE,
   content |-> Undefined]

InstIdle ==
  /\ cfg = [path |-> RootProjectPath, skipSnapshot |-> FALSE,
            skipChangelog |-> FALSE, extraFiles |-> <<>>]
  /\ repoFiles = [k \in Kinds |-> [ok |-> TRUE, n |-> 0]]
  /\ versionsContent = Undefined
  /\ calls = [s \in Slots |-> IdleCall]
  /\ searches = [k \in Kinds |-> "idle"]
  /\ arrival = <<>>
  /\ updates = <<>>
  /\ options = NoOptions
  /\ ret = NoReturn
  /\ lastFetch = NoFetch
  /\ fetched = 0
  /\ written = <<>>
  /\ firstBuild = NoBuild
  /\ orphans = [k \in Kinds |-> 0]
  /\ rejections = <<>>
  /\ process = Running

AllIdle == \A s \in Slots : calls[s].op = "idle"

(***************************************************************************)
(* getVersionsContent, needsSnapshot, buildVersionsMap.                    *)
(***************************************************************************)
RegistryOps == {"getVersionsContent", "needsSnapshot", "buildVersionsMap"}

\* What op returns once getVersionsContent has delivered content.
ReturnContent(op, content, fetches) ==
  [NoReturn EXCEPT !.op = op, !.status = "ok", !.content = content,
                   !.bool = (op = "needsSnapshot" /\ content.snapshot),
                   !.fetches = fetches]
Throw(op, error, fetches) ==
  [NoReturn EXCEPT !.op = op, !.status = "error", !.error = error,
                   !.fetches = fetches]

\* Mutant: the not-found error of the backend is rethrown like any other.
FetchErrorRethrown(err) == err

\* Lines 75-84: what getVersionsContent throws when the fetch threw err.
FetchErrorThrown(err) ==
  IF err.type = "FileNotFoundError"
    THEN MissingRequiredFileError(addPath(VersionsTxt), StrategyName,
                                  RepositoryId)
    ELSE err

\* Mutant: needsSnapshot always goes to the registry.
ReturnsWithoutContentNever(op) == FALSE

\* Lines 55-57: needsSnapshot returns false without looking at the registry
\* when snapshot handling can be skipped.
ReturnsWithoutContent(op) == op = "needsSnapshot" /\ canSkipSnapshot

\* Mutant: the first content assigned is kept.
CacheAfterFetchFirstWins(old, new) == IF old.defined THEN old ELSE new

\* Line 71: the field after the fetch delivered new.
CacheAfterFetch(old, new) == new

\* Mutant: a failed fetch leaves a placeholder in the field.
CacheAfterFailedFetchPlaceholder(old) ==
  [defined |-> TRUE, id |-> "", snapshot |-> FALSE]

\* Lines 70-84: the await threw, the assignment of line 71 did not happen.
CacheAfterFailedFetch(old) == old

\* Mutant: the cache is never consulted.
MustFetchAlways(content) == TRUE

\* Line 69: !this.versionsContent
MustFetch(content) == ~content.defined

\* Lines 54-74: a call of op in slot s up to its first await, or to its
\* return when it reaches none.  getVersionsContent awaits the fetch when
\* the field is unset and returns the field otherwise; needsSnapshot and
\* buildVersionsMap await what getVersionsContent returns (lines 59, 64).
Call(s, op) ==
  /\ process.alive
  /\ calls[s].op = "idle"
  /\ IF ReturnsWithoutContent(op)
       THEN /\ ret' = [NoReturn EXCEPT !.op = op, !.status = "ok"]
            /\ UNCHANGED calls
     ELSE IF MustFetch(versionsContent)
       THEN /\ calls' = [calls EXCEPT ![s] = [IdleCall EXCEPT
                                               !.op = op, !.pc = "fetching",
                                               !.fetches = 1]]
            /\ ret' = NoReturn
     ELSE IF op = "getVersionsContent"
       THEN /\ ret' = ReturnContent(op, versionsContent, 0)
            /\ UNCHANGED calls
     ELSE /\ calls' = [calls EXCEPT ![s] = [IdleCall EXCEPT
                                             !.op = op, !.pc = "await",
                                             !.got = versionsContent]]
          /\ ret' = NoReturn
  /\ UNCHANGED <<cfg, repoFiles, versionsContent, searches, arrival, updates,
                 options, lastFetch, fetched, written, firstBuild, orphans,
                 rejections, process, stableVars, bumpVars>>

\* Lines 71-86: the backend answers the fetch of the call in slot s and
\* getVersionsContent resumes: it assigns the field and returns it, or
\* throws.  When it was called by needsSnapshot or buildVersionsMap, that
\* caller is still to resume from its own await.
FetchCompletes(s, outcome) ==
  /\ process.alive
  /\ calls[s].pc = "fetching"
  /\ lastFetch' = outcome
  /\ IF outcome.ok
       THEN /\ versionsContent' = CacheAfterFetch(versionsContent,
                                                  outcome.content)
            /\ fetched' = fetched + 1
            /\ written' = Append(written, versionsContent')
            /\ IF calls[s].op = "getVersionsContent"
                 THEN /\ calls' = [calls EXCEPT ![s] = IdleCall]
                      /\ ret' = ReturnContent(calls[s].op, versionsContent',
                                              calls[s].fetches)
                 ELSE /\ calls' = [calls EXCEPT ![s].pc = "await",
                                               ![s].got = versionsContent']
                      /\ UNCHANGED ret
       ELSE /\ versionsContent' = CacheAfterFailedFetch(versionsContent)
            /\ UNCHANGED <<fetched, written>>
            /\ IF calls[s].op = "getVersionsContent"
                 THEN /\ calls' = [calls EXCEPT ![s] = IdleCall]
                      /\ ret' = Throw(calls[s].op,
                                      FetchErrorThrown(outcome.error),
                                      calls[s].fetches)
                 ELSE /\ calls' = [calls EXCEPT
                                     ![s].pc = "await",
                                     ![s].error =
                                       FetchErrorThrown(outcome.error)]
                      /\ UNCHANGED ret
  /\ UNCHANGED <<cfg, repoFiles, searches, arrival, updates, options,
                 firstBuild, orphans, rejections, process, stableVars,
                 bumpVars>>

\* Lines 59-60 and 64-65: needsSnapshot or buildVersionsMap resumes from the
\* await of getVersionsContent: with a rejection it throws on; with a value,
\* needsSnapshot answers on that value and buildVersionsMap assigns it to
\* the field and returns its parsed content.
CallerResumes(s) ==
  /\ process.alive
  /\ calls[s].pc = "await"
  /\ calls' = [calls EXCEPT ![s] = IdleCall]
  /\ IF calls[s].error # NoError
       THEN /\ ret' = Throw(calls[s].op, calls[s].error, calls[s].fetches)
            /\ UNCHANGED versionsContent
       ELSE /\ ret' = ReturnContent(calls[s].op, calls[s].got,
                                    calls[s].fetches)
            /\ versionsContent' =
                 IF calls[s].op = "buildVersionsMap" THEN calls[s].got
                 ELSE versionsContent
  /\ UNCHANGED <<cfg, repoFiles, searches, arrival, updates, options,
                 lastFetch, fetched, written, firstBuild, orphans,
                 rejections, process, stableVars, bumpVars>>

(***************************************************************************)
(* buildUpdates.                                                           *)
(***************************************************************************)
JavaUpdate(opts) ==
  [type |-> "JavaUpdate", version |-> opts.newVersion,
   versionsMap |-> opts.versionsMap, isSnapshot |-> opts.isSnapshot]

\* Lines 96-104.
RegistryUpdate(opts) ==
  [path |-> addPath(VersionsTxt), createIfMissing |-> FALSE,
   cachedFileContents |-> versionsContent,
   updater |-> [type |-> "VersionsManifest", version |-> opts.newVersion,
                versionsMap |-> opts.versionsMap]]

\* Lines 123-133, 136-146, 149-159: one descriptor per path found.
FoundUpdates(paths, opts) ==
  [i \in 1..Len(paths) |->
     [path |-> addPath(paths[i]), createIfMissing |-> FALSE,
      cachedFileContents |-> Undefined, updater |-> JavaUpdate(opts)]]

\* Mutant: structured extra-file entries are pushed like plain paths.
IsPlainPathAlways(extraFile) == TRUE

\* Line 162: typeof extraFile === 'object' skips the entry.
IsPlainPath(extraFile) == ~extraFile.isObject

\* Lines 161-174.
ExtraUpdates(opts) ==
  LET plain == SelectSeq(cfg.extraFiles, IsPlainPath) IN
  [i \in 1..Len(plain) |->
     [path |-> plain[i].path, createIfMissing |-> FALSE,
      cachedFileContents |-> Undefined, updater |-> JavaUpdate(opts)]]

\* Mutant: the changelog is emitted whenever it is not suppressed.
EmitsChangelogIgnoringSnapshot(opts) == ~cfg.skipChangelog

\* Line 176.
EmitsChangelog(opts) == ~opts.isSnapshot /\ ~cfg.skipChangelog

\* Lines 176-185.
ChangelogUpdates(opts) ==
  IF EmitsChangelog(opts)
    THEN <<[path |-> addPath(ChangelogPath), createIfMissing |-> TRUE,
            cachedFileContents |-> Undefined,
            updater |-> [type |-> "Changelog", version |-> opts.newVersion,
                         changelogEntry |-> opts.changelogEntry]]>>
    ELSE <<>>

\* The searches that have or had no handler at their await: those of ended
\* calls still in flight, the rejected ones node has not reported yet, and
\* the ones it has reported.
Unawaited ==
  orphans[1] + orphans[2] + orphans[3] + Len(rejections) + process.unhandled

\* Lines 92-122: the registry descriptor is pushed, the three searches are
\* issued and the first one is awaited.  (A call leaves at most two searches
\* unawaited, those of kinds 2 and 3.)
BuildUpdatesStart(s, isSnapshot) ==
  /\ process.alive
  /\ calls[s].op = "idle"
  /\ Unawaited + 2 <= MaxUnawaited
  /\ options' = Options(isSnapshot)
  /\ updates' = <<RegistryUpdate(options')>>
  /\ searches' = [k \in Kinds |-> "pending"]
  /\ arrival' = <<>>
  /\ calls' = [calls EXCEPT ![s] = [IdleCall EXCEPT !.op = "buildUpdates",
                                                    !.pc = "await1"]]
  /\ ret' = NoReturn
  /\ UNCHANGED <<cfg, repoFiles, versionsContent, lastFetch, fetched, written,
                 firstBuild, orphans, rejections, process, stableVars,
                 bumpVars>>

\* Mutant: the searches are consumed in the order they completed.
AwaitedKindByArrival(pc) ==
  IF pc = "await1" THEN (IF arrival = <<>> THEN 1 ELSE arrival[1])
  ELSE IF pc = "await2" THEN (IF Len(arrival) < 2 THEN 2 ELSE arrival[2])
  ELSE (IF Len(arrival) < 3 THEN 3 ELSE arrival[3])

\* Lines 122, 135, 148: the search awaited at pc.
AwaitedKind(pc) ==
  IF pc = "await1" THEN 1 ELSE IF pc = "await2" THEN 2 ELSE 3

\* Lines 122, 135, 148: the awaited promise of the search for kind is
\* rejected, and the await throws its reason.
SearchFailed(kind) == ~repoFiles[kind].ok

\* The promise of the search for kind has a handler: the running call is
\* suspended at its await.  The promises are created at lines 106-120 and
\* get their handler only when the code reaches lines 122, 135 and 148.
IsAwaited(kind) ==
  \E s \in Slots :
    calls[s].op = "buildUpdates" /\ AwaitedKind(calls[s].pc) = kind

\* A continuation is queued as a microtask: a call is suspended at an await
\* whose promise is settled (lines 59, 64, 122, 135, 148).
MicrotaskQueued ==
  \E s \in Slots :
    \/ calls[s].pc = "await"
    \/ /\ calls[s].op = "buildUpdates"
       /\ searches[AwaitedKind(calls[s].pc)] = "done"

\* The promise of a search for kind, rejected while it has no handler;
\* running tells whether it belongs to the call that is running, whose await
\* of lines 135 or 148 may still give it a handler.
Rejection(kind, running) == [kind |-> kind, running |-> running]

\* What the process becomes when node reports the rejections rs, rejected
\* without a handler: it raises unhandledRejection for the first, which ends
\* the process with the reason as an uncaught error (the default), or, when
\* a listener is installed or the mode is warn or none, for each of them,
\* and the process runs on.
UnhandledRejection(rs) ==
  {[process EXCEPT !.unhandled = @ + Len(rs)],
   [alive |-> FALSE, uncaught |-> SearchError(rs[1].kind),
    unhandled |-> process.unhandled + 1]}

\* The backend answers the search for kind of the running call: its promise
\* is settled.  A rejected promise that has no handler is kept by node to
\* be reported when the microtask queue has been drained.
SearchCompletes(kind) ==
  /\ process.alive
  /\ searches[kind] = "pending"
  /\ searches' = [searches EXCEPT ![kind] = "done"]
  /\ arrival' = Append(arrival, kind)
  /\ rejections' =
       IF SearchFailed(kind) /\ ~IsAwaited(kind)
         THEN Append(rejections, Rejection(kind, TRUE))
         ELSE rejections
  /\ UNCHANGED <<cfg, repoFiles, versionsContent, calls, updates, options, ret,
                 lastFetch, fetched, written, firstBuild, orphans, process,
                 stableVars, bumpVars>>

\* The backend answers one of the searches for kind whose call has ended by
\* a throw; no code is left to give its promise a handler.
OrphanCompletes(kind) ==
  /\ process.alive
  /\ orphans[kind] > 0
  /\ orphans' = [orphans EXCEPT ![kind] = @ - 1]
  /\ rejections' =
       IF SearchFailed(kind)
         THEN Append(rejections, Rejection(kind, FALSE))
         ELSE rejections
  /\ UNCHANGED <<cfg, repoFiles, versionsContent, calls, searches, arrival,
                 updates, options, ret, lastFetch, fetched, written,
                 firstBuild, process, stableVars, bumpVars>>

\* The microtask queue is drained with rejected promises left without a
\* handler: node reports them, in the order they were rejected.
ReportRejections ==
  /\ process.alive
  /\ rejections # <<>>
  /\ ~MicrotaskQueued
  /\ process' \in UnhandledRejection(rejections)
  /\ rejections' = <<>>
  /\ UNCHANGED <<cfg, repoFiles, versionsContent, calls, searches, arrival,
                 updates, options, ret, lastFetch, fetched, written,
                 firstBuild, orphans, stableVars, bumpVars>>

\* Lines 161-187: what follows the last forEach, up to the return.
PlanTail(opts) == ExtraUpdates(opts) \o ChangelogUpdates(opts)

\* Lines 135, 148: the running call reaches the await of the search for
\* kind, which gives the promise its handler: if it was rejected and not yet
\* reported, it is no longer unhandled.
RejectionsAfterAwait(kind) ==
  SelectSeq(rejections, LAMBDA r : ~(r.running /\ r.kind = kind))

\* The locals of buildUpdates once the call is over; each search that is
\* still pending stays in flight with no one to await it, and the rejected
\* ones it never awaited stay without a handler.
BuildUpdatesEnds(s) ==
  /\ calls' = [calls EXCEPT ![s] = IdleCall]
  /\ updates' = <<>>
  /\ options' = NoOptions
  /\ searches' = [k \in Kinds |-> "idle"]
  /\ arrival' = <<>>
  /\ orphans' = [k \in Kinds |->
                   orphans[k] + (IF searches[k] = "pending" THEN 1 ELSE 0)]
  /\ rejections' = [i \in 1..Len(rejections) |->
                      Rejection(rejections[i].kind, FALSE)]

\* Lines 122-187: the await of one search resumes. A failed search throws; a
\* successful one pushes its descriptors and the next search is awaited, and
\* after the third the extra files and the changelog are pushed and the plan
\* is returned.
AwaitResumes(s) ==
  LET pc == calls[s].pc
      kind == AwaitedKind(pc)
      next == IF pc = "await1" THEN "await2" ELSE "await3"
      pushed == updates \o FoundUpdates(FoundFiles(kind), options)
      plan == pushed \o PlanTail(options)
  IN
  /\ process.alive
  /\ calls[s].op = "buildUpdates"
  /\ searches[kind] = "done"
  /\ IF SearchFailed(kind)
       THEN /\ ret' = [Throw("buildUpdates", SearchError(kind), 0)
                          EXCEPT !.arrival = arrival]
            /\ BuildUpdatesEnds(s)
            /\ UNCHANGED firstBuild
     ELSE IF pc # "await3"
       THEN /\ updates' = pushed
            /\ calls' = [calls EXCEPT ![s].pc = next]
            /\ rejections' = RejectionsAfterAwait(AwaitedKind(next))
            /\ UNCHANGED <<ret, firstBuild, options, searches, arrival,
                           orphans>>
     ELSE /\ ret' = [NoReturn EXCEPT !.op = "buildUpdates", !.status = "ok",
                                     !.plan = plan, !.arrival = arrival,
                                     !.options = options]
          /\ BuildUpdatesEnds(s)
          /\ firstBuild' =
               IF firstBuild.set THEN firstBuild
               ELSE [set |-> TRUE, plan |-> plan, arrival |-> arrival,
                     isSnapshot |-> options.isSnapshot,
                     content |-> versionsContent]
  /\ UNCHANGED <<cfg, repoFiles, versionsContent, lastFetch, fetched, written,
                 process, stableVars, bumpVars>>

(***************************************************************************)
(* SpecStable: isStableArtifact on every key up to MaxKeyLen characters    *)
(* (letters, a digit, the hyphen and a line terminator) and on the four    *)
(* keys the specification names.                                           *)
(***************************************************************************)
KeyAlphabet == {"c", "b", "v", "2", "-", "U+2028"}

Str_core == <<"c", "o", "r", "e">>
Str_core_v2 == Str_core \o <<"-", "v", "2">>
Str_core_v2beta == Str_core_v2 \o <<"b", "e", "t", "a">>
Str_core_v2_beta == Str_core_v2 \o <<"-", "b", "e", "t", "a">>
NamedKeys == {Str_core, Str_core_v2, Str_core_v2beta, Str_core_v2_beta}

ArtifactKeys == SeqsUpTo(KeyAlphabet, MaxKeyLen) \cup NamedKeys

NotReturned == [returned |-> FALSE, value |-> FALSE]

BumpIdle ==
  /\ versionsMap = <<>>
  /\ conventionalCommits = <<>>
  /\ inputMap = <<>>
  /\ inputCommits = <<>>
  /\ postResult = [returned |-> FALSE, value |-> <<>>]
  /\ updateResult = [returned |-> FALSE, value |-> <<>>]
  /\ bumpLog = <<>>
  /\ updateCall = IdleUpdate

StableIdle ==
  /\ artifact = <<>>
  /\ stableResult = NotReturned

InitStable ==
  /\ artifact \in ArtifactKeys
  /\ stableResult = NotReturned
  /\ BumpIdle
  /\ InstIdle

Classify ==
  /\ ~stableResult.returned
  /\ stableResult' = [returned |-> TRUE, value |-> isStableArtifact(artifact)]
  /\ UNCHANGED <<artifact, bumpVars, instVars>>

NextStable == Classify

SpecStable == InitStable /\ [][NextStable]_vars

(***************************************************************************)
(* SpecBump: postProcessCommits and updateVersionsMap on one commit array  *)
(* and one VersionsMap.                                                    *)
(***************************************************************************)
MapKeyPool == {<<"c">>, <<"c", "-", "v", "2">>, <<"c", "-", "v", "2", "b">>}
MapValuePool == {NoVersion, Version(0, 1, 0), Version(1, 2, 3)}

IsInjective(s) == \A i, j \in 1..Len(s) : s[i] = s[j] => i = j

VersionsMaps ==
  {m \in SeqsUpTo([key : MapKeyPool, value : MapValuePool], MaxKeys) :
     IsInjective(MapKeys(m))}

InitBump ==
  /\ versionsMap \in VersionsMaps
  /\ conventionalCommits \in SeqsUpTo(Commits, MaxCommits)
  /\ inputMap = versionsMap
  /\ inputCommits = conventionalCommits
  /\ postResult = [returned |-> FALSE, value |-> <<>>]
  /\ updateResult = [returned |-> FALSE, value |-> <<>>]
  /\ bumpLog = <<>>
  /\ updateCall = IdleUpdate
  /\ StableIdle
  /\ InstIdle

\* Lines 33-52: postProcessCommits runs without suspension; it may be called
\* while updateVersionsMap is suspended.
PostProcessCommits ==
  /\ ~postResult.returned
  /\ ~updateResult.returned
  /\ conventionalCommits' = postProcessCommits(conventionalCommits)
  /\ postResult' = [returned |-> TRUE, value |-> conventionalCommits']
  /\ UNCHANGED <<versionsMap, inputMap, inputCommits, updateResult, bumpLog,
                 updateCall, stableVars, instVars>>

\* Lines 207-223: updateVersionsMap, with the locals of call, runs on from
\* position i of the key iterator over map up to the await of line 216,
\* where versioningStrategy.bump has been called, or up to its return.
UpdateRuns(map, i, call) ==
  LET r == UpdateLoop(map, i, call.isPromotion) IN
  /\ versionsMap' = r.map
  /\ IF r.i > Len(r.map)
       THEN /\ updateResult' = [returned |-> TRUE, value |-> r.map]
            /\ updateCall' = [call EXCEPT !.pc = "returned"]
            /\ UNCHANGED bumpLog
       ELSE LET versionKey == MapKeys(r.map)[r.i]
                version == MapGet(r.map, versionKey)
            IN
            /\ bumpLog' = Append(bumpLog,
                                 [key |-> versionKey, version |-> version,
                                  commits |-> call.modifiedCommits])
            /\ updateCall' = [call EXCEPT
                                !.pc = "await", !.i = r.i,
                                !.newVersion =
                                  bump(version, call.modifiedCommits)]
            /\ UNCHANGED updateResult

\* Lines 194-216: the call of updateVersionsMap up to its first await or to
\* its return.
UpdateVersionsMap ==
  /\ updateCall.pc = "idle"
  /\ UpdateRuns(versionsMap, 1,
                [IdleUpdate EXCEPT
                   !.isPromotion = isPromotionOf(conventionalCommits),
                   !.modifiedCommits = modifiedCommitsOf(conventionalCommits),
                   !.input = conventionalCommits])
  /\ conventionalCommits' = CommitsAfterUpdate(conventionalCommits)
  /\ UNCHANGED <<inputMap, inputCommits, postResult, stableVars, instVars>>

\* Lines 216-223: the await of versioningStrategy.bump resumes; the new
\* version is stored under the key and the loop goes on.
BumpResumes ==
  /\ updateCall.pc = "await"
  /\ UpdateRuns(MapSet(versionsMap, MapKeys(versionsMap)[updateCall.i],
                       updateCall.newVersion),
                updateCall.i + 1, updateCall)
  /\ UNCHANGED <<conventionalCommits, inputMap, inputCommits, postResult,
                 stableVars, instVars>>

NextBump == PostProcessCommits \/ UpdateVersionsMap \/ BumpResumes

SpecBump == InitBump /\ [][NextBump]_vars

(***************************************************************************)
(* SpecPlan: buildUpdates, called any number of times, one call at a time, *)
(* on an instance whose registry content is cached or not, against every   *)
(* answer of the three searches.                                           *)
(***************************************************************************)
Configurations(paths, skipSnapshots) ==
  [path : paths, skipSnapshot : skipSnapshots, skipChangelog : BOOLEAN,
   extraFiles : ExtraFileLists]

InitInstance ==
  /\ calls = [s \in Slots |-> IdleCall]
  /\ searches = [k \in Kinds |-> "idle"]
  /\ arrival = <<>>
  /\ updates = <<>>
  /\ options = NoOptions
  /\ ret = NoReturn
  /\ lastFetch = NoFetch
  /\ fetched = 0
  /\ written = <<>>
  /\ firstBuild = NoBuild
  /\ orphans = [k \in Kinds |-> 0]
  /\ rejections = <<>>
  /\ process = Running
  /\ StableIdle
  /\ BumpIdle

InitPlan ==
  /\ cfg \in Configurations({"java"}, {FALSE})
  /\ repoFiles \in [Kinds -> SearchAnswers]
  /\ versionsContent \in {Undefined, [defined |-> TRUE, id |-> "r1",
                                        snapshot |-> TRUE]}
  /\ InitInstance

NextPlan ==
  \/ \E isSnapshot \in BOOLEAN : AllIdle /\ BuildUpdatesStart(1, isSnapshot)
  \/ \E kind \in Kinds : SearchCompletes(kind)
  \/ \E kind \in Kinds : OrphanCompletes(kind)
  \/ AwaitResumes(1)
  \/ ReportRejections

SpecPlan == InitPlan /\ [][NextPlan]_vars

(***************************************************************************)
(* SpecRegistry: the methods of one instance called in any order, one call *)
(* at a time (the caller contract), from construction on.  Every search of *)
(* the example repository succeeds, so that no call leaves a search behind.*)
(***************************************************************************)
\* The repository of the specification's example: one pom.xml, one
\* build.gradle, no dependencies.properties.
ExampleFiles ==
  <<[ok |-> TRUE, n |-> 1], [ok |-> TRUE, n |-> 1], [ok |-> TRUE, n |-> 0]>>

InitRegistry ==
  /\ cfg \in {c \in Configurations({RootProjectPath, "java"}, BOOLEAN) :
                c.extraFiles = <<PlainFile("x.txt")>> /\ ~c.skipChangelog}
  /\ repoFiles = ExampleFiles
  /\ versionsContent = Undefined
  /\ InitInstance

NextRegistry ==
  \/ \E op \in RegistryOps : AllIdle /\ Call(1, op)
  \/ \E outcome \in FetchOutcomes : FetchCompletes(1, outcome)
  \/ CallerResumes(1)
  \/ \E isSnapshot \in BOOLEAN : AllIdle /\ BuildUpdatesStart(1, isSnapshot)
  \/ \E kind \in Kinds : SearchCompletes(kind)
  \/ AwaitResumes(1)

SpecRegistry == InitRegistry /\ [][NextRegistry]_vars

(***************************************************************************)
(* Claims about updateVersionsMap, postProcessCommits and isStableArtifact.*)
(***************************************************************************)
KeySet(map) == {map[i].key : i \in 1..Len(map)}

\* Whether some commit of the sequence carries the note RELEASE AS / 1.0.0.
HasPromotionNote(commits) ==
  \E i \in 1..Len(commits) : \E j \in 1..Len(commits[i].notes) :
    /\ commits[i].notes[j].title = "RELEASE AS"
    /\ commits[i].notes[j].text = "1.0.0"

\* The entries of the map that updateVersionsMap was called on (the map is
\* not touched by postProcessCommits).
EntryBefore(i) == inputMap[i]

\* C1: updateVersionsMap returns a map with exactly the keys of the map it
\* was given: none added, none removed, one entry per key.
C1_KeySetInvariance ==
  updateResult.returned =>
    /\ KeySet(updateResult.value) = KeySet(inputMap)
    /\ Len(updateResult.value) = Len(inputMap)
    /\ KeySet(versionsMap) = KeySet(inputMap)

\* C1 witness: a call on a map of two keys that promoted one key and
\* skipped the other for lack of a version.
C1_Witness ==
  /\ updateResult.returned
  /\ Len(inputMap) = 2
  /\ \E i \in 1..2 : inputMap[i].value = NoVersion
  /\ \E i \in 1..2 : updateResult.value[i].value = PromotedVersion
                     /\ inputMap[i].value # PromotedVersion

\* C2 as stated: with a promotion note in any commit, every stable key maps
\* to 1.0.0 after updateVersionsMap.
C2_Original ==
  (updateResult.returned /\ HasPromotionNote(conventionalCommits)) =>
    \A i \in 1..Len(updateResult.value) :
      isStableArtifact(updateResult.value[i].key) =>
        updateResult.value[i].value = PromotedVersion

\* C2 amended: with a promotion note in any commit, every stable key that
\* has a current version maps to 1.0.0 after updateVersionsMap; a stable key
\* without a version is skipped and keeps no version.
C2_PromotionOfVersionedStableKeys ==
  (updateResult.returned /\ HasPromotionNote(conventionalCommits)) =>
    \A i \in 1..Len(updateResult.value) :
      isStableArtifact(updateResult.value[i].key) =>
        IF EntryBefore(i).value = NoVersion
          THEN updateResult.value[i].value = NoVersion
          ELSE updateResult.value[i].value = PromotedVersion

\* C2 witness: the promotion note is in the second commit, behind another
\* note, the first commit is a breaking change, and a stable key at 1.2.3
\* (which the strategy would take to 2.0.0) is now at 1.0.0.
C2_Witness ==
  /\ updateResult.returned
  /\ Len(conventionalCommits) = 2
  /\ ~isPromotionCommit(conventionalCommits[1])
  /\ conventionalCommits[1].breaking
  /\ conventionalCommits[2].notes = <<BreakingNote, PromotionNote>>
  /\ \E i \in 1..Len(inputMap) :
       /\ inputMap[i].key = <<"c", "-", "v", "2">>
       /\ inputMap[i].value = Version(1, 2, 3)
       /\ updateResult.value[i].value = PromotedVersion

\* The classification as the specification words it: a key is pre-stable
\* iff it ends with a hyphen, v, a maximal non-empty run of digits and a
\* non-empty qualifier without hyphen.
ClaimedPreStable(key) ==
  \E h \in 1..Len(key) : \E d \in (h + 2)..(Len(key) - 1) :
    /\ key[h] = "-"
    /\ key[h + 1] = "v"
    /\ \A j \in (h + 2)..d : key[j] \in Digits
    /\ key[d + 1] \notin Digits
    /\ \A j \in (d + 1)..Len(key) : key[j] # "-"

\* C3 as stated: isStableArtifact(key) is false exactly for the keys ending
\* in -v<digits><qualifier> with a non-empty, hyphen-free qualifier.
C3_Original ==
  stableResult.returned => stableResult.value = ~ClaimedPreStable(artifact)

HasLineTerminator(key) ==
  \E i \in 1..Len(key) : key[i] \in {"\n", "\r", "U+2028", "U+2029"}

\* C3 amended: for a key without a line terminator, isStableArtifact(key)
\* is false exactly when the key ends in -v<digits><qualifier> with a
\* non-empty, hyphen-free qualifier; a key that holds a line terminator is
\* stable whatever its ending.  core, core-v2 and core-v2-beta are stable,
\* core-v2beta is not.
C3_StabilityClassification ==
  stableResult.returned =>
    /\ ~HasLineTerminator(artifact) =>
         stableResult.value = ~ClaimedPreStable(artifact)
    /\ HasLineTerminator(artifact) => stableResult.value = TRUE
    /\ artifact = Str_core => stableResult.value = TRUE
    /\ artifact = Str_core_v2 => stableResult.value = TRUE
    /\ artifact = Str_core_v2beta => stableResult.value = FALSE
    /\ artifact = Str_core_v2_beta => stableResult.value = TRUE

\* C3 witness: a key with a qualifier was classified pre-stable.
C3_Witness ==
  /\ stableResult.returned
  /\ artifact = <<"c", "-", "v", "2", "b">>
  /\ stableResult.value = FALSE

\* C4: postProcessCommits turns the empty sequence into the one synthetic
\* commit and returns any other sequence as it was; the result is never empty.
C4_EnsureNonEmpty ==
  postResult.returned =>
    /\ Len(postResult.value) >= 1
    /\ inputCommits = <<>> =>
         /\ Len(postResult.value) = 1
         /\ postResult.value[1].type = "fake"
         /\ postResult.value[1].sha = "fake"
         /\ postResult.value[1].scope = Null
         /\ postResult.value[1].breaking = FALSE
         /\ postResult.value[1].notes = <<>>
         /\ postResult.value[1].files = <<>>
    /\ inputCommits # <<>> => postResult.value = inputCommits

\* C4 witness: the call on the empty sequence has returned.
C4_Witness ==
  /\ postResult.returned
  /\ inputCommits = <<>>
  /\ Len(postResult.value) = 1

(***************************************************************************)
(* Claims about buildUpdates and the registry content.                     *)
(***************************************************************************)
Returned(op) == ret.op = op /\ ret.status = "ok"
Threw(op) == ret.op = op /\ ret.status = "error"

\* The path of a file of the strategy's directory, spelled out.
UnderPath(file) ==
  IF cfg.path = "." THEN file ELSE <<cfg.path>> \o file

PlainExtraPaths ==
  LET Plain(e) == ~e.isObject IN
  [i \in 1..Len(SelectSeq(cfg.extraFiles, Plain)) |->
     SelectSeq(cfg.extraFiles, Plain)[i].path]

FoundCount(kind) == repoFiles[kind].n

IsChangelog(u) == u.updater.type = "Changelog"

\* C5: a returned plan is the registry descriptor, the descriptors of the
\* pom.xml, build.gradle and dependencies.properties files in discovery
\* order, the plain extra files in configuration order (structured entries
\* contribute nothing) and at most one changelog descriptor, in this order.
C5_PlanComposition ==
  Returned("buildUpdates") =>
    LET plan == ret.plan
        n1 == FoundCount(1)
        n2 == FoundCount(2)
        n3 == FoundCount(3)
        p == Len(PlainExtraPaths)
        c == Len(plan) - (1 + n1 + n2 + n3 + p)
    IN
    /\ c \in {0, 1}
    /\ c = (IF \E i \in 1..Len(plan) : IsChangelog(plan[i]) THEN 1 ELSE 0)
    /\ plan[1].path = UnderPath(<<"versions.txt">>)
    /\ plan[1].updater.type = "VersionsManifest"
    /\ \A i \in 1..n1 :
         /\ plan[1 + i].path = UnderPath(<<DirNames[i], "pom.xml">>)
         /\ plan[1 + i].updater.type = "JavaUpdate"
    /\ \A i \in 1..n2 :
         /\ plan[1 + n1 + i].path = UnderPath(<<DirNames[i], "build.gradle">>)
         /\ plan[1 + n1 + i].updater.type = "JavaUpdate"
    /\ \A i \in 1..n3 :
         /\ plan[1 + n1 + n2 + i].path =
              UnderPath(<<DirNames[i], "dependencies.properties">>)
         /\ plan[1 + n1 + n2 + i].updater.type = "JavaUpdate"
    /\ \A i \in 1..p :
         /\ plan[1 + n1 + n2 + n3 + i].path = PlainExtraPaths[i]
         /\ plan[1 + n1 + n2 + n3 + i].updater.type = "JavaUpdate"
    /\ c = 1 => IsChangelog(plan[Len(plan)])
    /\ (/\ n1 = 1 /\ n2 = 1 /\ n3 = 0 /\ p = 1
        /\ ~ret.options.isSnapshot /\ ~cfg.skipChangelog)
         => Len(plan) = 5 /\ IsChangelog(plan[5])

\* C5 witness: a plan with files of every kind, two of them pom.xml, two
\* plain extra files around a structured one, and a changelog.
C5_Witness ==
  /\ Returned("buildUpdates")
  /\ FoundCount(1) = 2 /\ FoundCount(2) = 1 /\ FoundCount(3) = 1
  /\ Len(cfg.extraFiles) = 3
  /\ Len(ret.plan) = 8
  /\ IsChangelog(ret.plan[8])

\* C6: a returned plan holds a changelog descriptor iff isSnapshot is false
\* and the changelog is not suppressed; it is then the only one, the last
\* element, and the only descriptor with createIfMissing = true.
C6_ChangelogDescriptor ==
  Returned("buildUpdates") =>
    LET plan == ret.plan
        changelogs == {i \in 1..Len(plan) : IsChangelog(plan[i])}
    IN
    /\ (changelogs # {}) <=> (~ret.options.isSnapshot /\ ~cfg.skipChangelog)
    /\ changelogs \subseteq {Len(plan)}
    /\ \A i \in 1..Len(plan) : plan[i].createIfMissing <=> i \in changelogs
    /\ ret.options.isSnapshot => changelogs = {}

\* C6 witness: a snapshot plan without changelog although the changelog is
\* not suppressed.
C6_Witness ==
  /\ Returned("buildUpdates")
  /\ ret.options.isSnapshot
  /\ ~cfg.skipChangelog
  /\ Len(ret.plan) >= 3
  /\ \A i \in 1..Len(ret.plan) : ~IsChangelog(ret.plan[i])

\* C7: a registry call whose fetch failed with file-not-found throws the
\* required-file-missing error with the resolved path of versions.txt, the
\* strategy name and owner/repo; one whose fetch failed otherwise throws
\* that very error; in both cases after a single fetch.
C7_FetchFailure ==
  (ret.status = "error" /\ ret.op \in RegistryOps) =>
    /\ ~lastFetch.ok
    /\ ret.fetches = 1
    /\ lastFetch.error.type = "FileNotFoundError" =>
         /\ ret.error.type = "MissingRequiredFileError"
         /\ ret.error.file = UnderPath(<<"versions.txt">>)
         /\ ret.error.component = "JavaYoshi"
         /\ ret.error.repository = <<Repository.owner, "/", Repository.repo>>
    /\ lastFetch.error.type # "FileNotFoundError" =>
         ret.error = lastFetch.error

\* C7 witness: buildVersionsMap failed on a missing versions.txt of a
\* strategy with a path of its own.
C7_Witness ==
  /\ Threw("buildVersionsMap")
  /\ cfg.path = "java"
  /\ lastFetch.error.type = "FileNotFoundError"
  /\ ret.error.type = "MissingRequiredFileError"

\* C8: with calls that do not overlap, the registry content is fetched at
\* most once: once the content is cached it never changes, no fetch is
\* issued, a call made from then on that reads the content works on the
\* cached one without a fetch of its own, and every registry call that
\* returns content returns the cached one.
C8_FetchedAtMostOnce ==
  /\ [](fetched <= 1)
  /\ [][versionsContent.defined =>
          /\ versionsContent' = versionsContent
          /\ fetched' = fetched
          /\ \A s \in Slots :
               /\ calls'[s].pc # "fetching"
               /\ (calls[s].op = "idle" /\ calls'[s].op \in RegistryOps) =>
                    /\ calls'[s].fetches = 0
                    /\ calls'[s].got = versionsContent
          /\ (/\ ret' # ret
              /\ ret'.op \in RegistryOps
              /\ ret'.status = "ok"
              /\ ~(ret'.op = "needsSnapshot" /\ cfg.skipSnapshot))
               => /\ ret'.content = versionsContent
                  /\ (\A s \in Slots : calls[s].op = "idle")
                       => ret'.fetches = 0]_vars

\* C8 witness: after a fetch that delivered content, a later call of
\* buildVersionsMap returned the cached content without a fetch.
C8_Witness ==
  /\ fetched = 1
  /\ Returned("buildVersionsMap")
  /\ ret.fetches = 0
  /\ ret.content = versionsContent
  /\ versionsContent.defined

\* C9 as stated: the first descriptor of every returned plan is the one of
\* versions.txt, with createIfMissing = false, and carries the cached
\* content of the registry.
C9_Original ==
  Returned("buildUpdates") =>
    /\ ret.plan[1].path = UnderPath(<<"versions.txt">>)
    /\ ret.plan[1].createIfMissing = FALSE
    /\ ret.plan[1].cachedFileContents.defined

\* C10: two calls of buildUpdates with the same options, on the same
\* configuration, search answers and cached content, return the same plan
\* whatever the order in which the searches completed; the descriptors of the
\* found files are in kind order.
C10_ArrivalOrderIrrelevant ==
  (/\ Returned("buildUpdates")
   /\ firstBuild.set
   /\ firstBuild.isSnapshot = ret.options.isSnapshot
   /\ firstBuild.content = versionsContent)
    => /\ ret.plan = firstBuild.plan
       /\ \A i, j \in 1..Len(ret.plan) :
            (/\ i < j
             /\ ret.plan[i].path[Len(ret.plan[i].path)] = "build.gradle")
              => ret.plan[j].path[Len(ret.plan[j].path)] # "pom.xml"
       /\ \A i, j \in 1..Len(ret.plan) :
            (/\ i < j
             /\ ret.plan[i].path[Len(ret.plan[i].path)]
                  = "dependencies.properties")
              => ret.plan[j].path[Len(ret.plan[j].path)]
                   \notin {"pom.xml", "build.gradle"}

\* C10 witness: a second call whose searches completed in the order 3, 2, 1
\* returned the plan of a first call whose searches completed in the order
\* 1, 2, 3, each search having found a file.
C10_Witness ==
  /\ Returned("buildUpdates")
  /\ firstBuild.set
  /\ firstBuild.isSnapshot = ret.options.isSnapshot
  /\ firstBuild.arrival = <<1, 2, 3>>
  /\ ret.arrival = <<3, 2, 1>>
  /\ \A k \in Kinds : FoundCount(k) >= 1
  /\ ret.plan = firstBuild.plan

(***************************************************************************)
(* Claims about needsSnapshot, the awaits of buildUpdates, overlapping     *)
(* registry calls and the frame of updateVersionsMap.                      *)
(***************************************************************************)
\* C11: with snapshot handling disabled needsSnapshot returns false, never
\* throws and never fetches, whatever the cache and the backend hold;
\* otherwise it returns the snapshot predicate of the instance's registry
\* content.
C11_NeedsSnapshot ==
  /\ (ret.op = "needsSnapshot" /\ cfg.skipSnapshot) =>
       /\ ret.status = "ok"
       /\ ret.bool = FALSE
       /\ ret.fetches = 0
  /\ \A s \in Slots :
       (calls[s].op = "needsSnapshot" /\ cfg.skipSnapshot) =>
         calls[s].pc # "fetching"
  /\ (Returned("needsSnapshot") /\ ~cfg.skipSnapshot) =>
       /\ versionsContent.defined
       /\ ret.content = versionsContent
       /\ ret.bool = versionsContent.snapshot

\* C11 witness: snapshot handling is disabled, the registry was found
\* missing by an earlier call and nothing is cached; needsSnapshot returned
\* false.
C11_Witness ==
  /\ cfg.skipSnapshot
  /\ Returned("needsSnapshot")
  /\ ret.bool = FALSE
  /\ ~versionsContent.defined
  /\ lastFetch.error.type = "FileNotFoundError"

AllSearchesDone == \A k \in Kinds : searches[k] = "done"

\* C12 as stated (the registry descriptor, which is pushed before the
\* searches are issued, left aside): while buildUpdates runs, no descriptor
\* is appended until all three searches have completed.  The code has no
\* join: lines 122-133 append the descriptors of pom.xml once the first
\* search alone has completed.
C12_Original ==
  \A s \in Slots :
    (calls[s].op = "buildUpdates" /\ Len(updates) > 1) => AllSearchesDone

(***************************************************************************)
(* SpecOverlap: the registry methods of one instance invoked while another *)
(* invocation is in flight (two invocation slots).  Between the steps of   *)
(* one invocation (its call, the answer to its fetch, the resumption of    *)
(* needsSnapshot or buildVersionsMap) the other invocation may run.        *)
(***************************************************************************)
NextOverlap ==
  \/ \E s \in Slots : \E op \in RegistryOps : Call(s, op)
  \/ \E s \in Slots : \E outcome \in FetchOutcomes : FetchCompletes(s, outcome)
  \/ \E s \in Slots : CallerResumes(s)

SpecOverlap == InitRegistry /\ [][NextOverlap]_vars

\* C13: with overlapping invocations every fetch that delivers content
\* assigns it to the field, whatever the field holds by then, so that two
\* invocations started on an empty cache fetch twice and write twice, the
\* later write replacing the earlier.
C13_EveryFetchOverwrites ==
  /\ [](fetched = Len(written))
  /\ [][fetched' = fetched + 1 =>
          /\ lastFetch'.ok
          /\ versionsContent' = lastFetch'.content
          /\ written' = Append(written, lastFetch'.content)]_vars

\* C13 witness: two fetches were issued and both delivered; the field, first
\* set to the content of one, now holds the different content of the other.
C13_Witness ==
  /\ fetched = 2
  /\ Len(written) = 2
  /\ written[1] # written[2]
  /\ versionsContent = written[2]

\* The notes of a commit other than the promotion note, in their order.
NonPromotionNotes(notes) ==
  LET Other(note) == note.title # "RELEASE AS" \/ note.text # "1.0.0"
  IN SelectSeq(notes, Other)

\* commits as the strategy is to receive them; the commits in question are
\* those the array held when updateVersionsMap was called.
PassedFor(commits) ==
  [i \in 1..Len(commits) |->
     [commits[i] EXCEPT !.notes = NonPromotionNotes(commits[i].notes)]]

\* C14: the commits handed to versioningStrategy.bump are the input commits,
\* one for one and in order, with the promotion notes removed and nothing
\* else changed; a commit without a promotion note is handed over as it is.
C14_CommitsPassedToStrategy ==
  updateResult.returned =>
    \A j \in 1..Len(bumpLog) :
      LET passed == bumpLog[j].commits IN
        /\ Len(passed) = Len(updateCall.input)
        /\ passed = PassedFor(updateCall.input)
        /\ \A i \in 1..Len(passed) :
             /\ \A n \in 1..Len(passed[i].notes) :
                  ~(passed[i].notes[n].title = "RELEASE AS"
                    /\ passed[i].notes[n].text = "1.0.0")
             /\ (updateCall.input[i].notes
                   = NonPromotionNotes(updateCall.input[i].notes)
                 => passed[i] = updateCall.input[i])

\* C14 witness: the strategy was called with two commits, the first of which
\* lost its promotion note and kept its other "RELEASE AS" note, the second
\* of which had no promotion note.
C14_Witness ==
  /\ updateResult.returned
  /\ Len(bumpLog) > 0
  /\ Len(conventionalCommits) = 2
  /\ conventionalCommits[1].notes = <<PromotionNote, ReleaseAsOther>>
  /\ bumpLog[1].commits[1].notes = <<ReleaseAsOther>>
  /\ conventionalCommits[2].notes = <<BreakingNote>>
  /\ bumpLog[1].commits[2] = conventionalCommits[2]

\* The entries of the map before the call that are to be bumped: those with
\* a version that are not both under promotion and stable.
ToBump(map, commits) ==
  LET promotion == HasPromotionNote(commits)
      Eligible(e) ==
        e.value # NoVersion /\ ~(promotion /\ isStableArtifact(e.key))
  IN SelectSeq(map, Eligible)

\* C15: the strategy is called exactly once for every key that has a version
\* and is not both under promotion and stable, in the map's order, with the
\* version the key had before the call, and the key's value becomes what
\* the strategy returns for that version and the modified commits.
C15_BumpPerKey ==
  updateResult.returned =>
    LET eligible == ToBump(inputMap, updateCall.input) IN
      /\ Len(bumpLog) = Len(eligible)
      /\ \A j \in 1..Len(bumpLog) :
           /\ bumpLog[j].key = eligible[j].key
           /\ bumpLog[j].version = eligible[j].value
      /\ \A i \in 1..Len(inputMap) :
           (\E j \in 1..Len(eligible) : eligible[j] = inputMap[i]) =>
             /\ versionsMap[i].key = inputMap[i].key
             /\ versionsMap[i].value
                  = bump(inputMap[i].value, PassedFor(updateCall.input))

\* C15 witness: two keys with different versions were bumped, each from its
\* own version, the first one to a new value.
C15_Witness ==
  /\ updateResult.returned
  /\ Len(bumpLog) = 2
  /\ bumpLog[1].version # bumpLog[2].version
  /\ versionsMap[1].value # inputMap[1].value
  /\ versionsMap[2].value = bump(inputMap[2].value, bumpLog[2].commits)
  /\ versionsMap[2].value # bump(versionsMap[1].value, bumpLog[2].commits)

\* C16: a key without a version is skipped: its entry is as before the call,
\* the strategy is not called for it, and the keys that have a version are
\* promoted or bumped as they are without it; the call returns a map.
C16_MissingVersionSkipped ==
  updateResult.returned =>
    /\ updateResult.value = versionsMap
    /\ Len(versionsMap) = Len(inputMap)
    /\ \A i \in 1..Len(inputMap) :
         IF inputMap[i].value = NoVersion
           THEN /\ versionsMap[i] = inputMap[i]
                /\ \A j \in 1..Len(bumpLog) : bumpLog[j].key # inputMap[i].key
           ELSE /\ versionsMap[i].key = inputMap[i].key
                /\ versionsMap[i].value =
                     IF HasPromotionNote(updateCall.input)
                        /\ isStableArtifact(inputMap[i].key)
                       THEN PromotedVersion
                       ELSE bump(inputMap[i].value,
                                 PassedFor(updateCall.input))

\* C16 witness: under promotion, a stable key without a version came first
\* and was left alone, and the key after it was processed.
C16_Witness ==
  /\ updateResult.returned
  /\ HasPromotionNote(conventionalCommits)
  /\ Len(inputMap) = 2
  /\ inputMap[1].value = NoVersion
  /\ isStableArtifact(inputMap[1].key)
  /\ versionsMap[1] = inputMap[1]
  /\ inputMap[2].value # NoVersion
  /\ versionsMap[2].value # inputMap[2].value

\* The kinds whose search fails.
FailingKinds == {k \in {1, 2, 3} : ~repoFiles[k].ok}

\* C17 as stated: when a search fails, buildUpdates throws the error of the
\* failed search of the lowest kind, whatever the order in which the
\* searches completed, and returns no plan; no failure of a search ends up
\* anywhere else than in the error buildUpdates throws.
C17_Original ==
  /\ (FailingKinds # {} /\ ret.op = "buildUpdates") => ret.status = "error"
  /\ Threw("buildUpdates") =>
       /\ \E k \in FailingKinds :
            /\ \A other \in FailingKinds : k <= other
            /\ ret.error = [type |-> "SearchError", kind |-> k]
       /\ ret.plan = <<>>
  /\ process.alive

\* The last fetch the backend answered failed.
LastFetchFailed == ~lastFetch.ok /\ lastFetch.error.type # "none"

\* C18 as stated: after a failed fetch every call of getVersionsContent,
\* needsSnapshot or buildVersionsMap issues a new fetch, so that none of them
\* returns while the last answer of the backend is still the failure.
C18_Original ==
  ~(/\ LastFetchFailed
    /\ ret.op \in {"getVersionsContent", "needsSnapshot", "buildVersionsMap"}
    /\ ret.status = "ok")

\* C18: a failed fetch leaves the cached content unset, and the next call of
\* getVersionsContent or buildVersionsMap, or of needsSnapshot when snapshots
\* are not skipped, issues a new fetch; needsSnapshot on an instance that
\* skips snapshots returns false without a fetch, as it always does.
C18_FailedFetchNotCached ==
  /\ [](/\ LastFetchFailed => ~versionsContent.defined
        /\ (ret.status = "error" /\ ret.op \in RegistryOps) =>
             /\ LastFetchFailed
             /\ ~versionsContent.defined
             /\ \A s \in Slots : calls[s].op = "idle")
  /\ [][(/\ LastFetchFailed
         /\ \A s \in Slots : calls[s].op = "idle"
         /\ \E op \in RegistryOps :
              \/ \E s \in Slots : calls'[s].op = op
              \/ ret'.op = op /\ ret' # ret)
          => \/ \E s \in Slots : /\ calls'[s].pc = "fetching"
                                 /\ calls'[s].fetches = 1
             \/ /\ ret'.op = "needsSnapshot"
                /\ cfg.skipSnapshot
                /\ ret'.status = "ok"
                /\ ~ret'.bool
                /\ ret'.fetches = 0]_vars

\* C18 witness: a fetch failed, and the call that followed is awaiting a
\* fetch of its own.
C18_Witness ==
  /\ LastFetchFailed
  /\ ~versionsContent.defined
  /\ calls[1].op = "buildVersionsMap"
  /\ calls[1].pc = "fetching"

\* C19: every step of updateVersionsMap leaves the commit array and the notes of its
\* commits as they were, promotion notes included; it changes only the
\* values of the VersionsMap, whose keys and order stay, and the stripped
\* commits exist only in what is handed to the strategy.
C19_CommitsImmutable ==
  [][updateCall' # updateCall =>
       /\ conventionalCommits' = conventionalCommits
       /\ \A i \in 1..Len(conventionalCommits) :
            conventionalCommits'[i].notes = conventionalCommits[i].notes
       /\ HasPromotionNote(conventionalCommits')
            = HasPromotionNote(conventionalCommits)
       /\ MapKeys(versionsMap') = MapKeys(versionsMap)
       /\ updateResult'.returned => updateResult'.value = versionsMap'
       /\ UNCHANGED <<inputMap, inputCommits, postResult, stableVars,
                      instVars>>]_vars

\* C19 witness: the call returned with a changed map; the strategy received
\* commits without the promotion note, and the input commit still has it.
C19_Witness ==
  /\ updateResult.returned
  /\ versionsMap # inputMap
  /\ Len(bumpLog) > 0
  /\ conventionalCommits = inputCommits
  /\ Len(conventionalCommits) > 0
  /\ conventionalCommits[1].notes = <<BreakingNote, PromotionNote>>
  /\ bumpLog[1].commits[1].notes = <<BreakingNote>>

====
